---- MODULE Spec2Model ----
(***************************************************************************)
(* Model of files/scripts/inventory.py: the InventoryBuilder that turns    *)
(* the VM list of `vml show` into an Ansible dynamic inventory document.   *)
(*                                                                         *)
(* Representation of Python values.                                        *)
(*   - A string that the program splits on "/" (a VM name, a group name,   *)
(*     an inventory key, a network_address) is the sequence of its         *)
(*     slash-free segments: "a/b/c" is <<"a","b","c">>, "a//b" is          *)
(*     <<"a","","b">>, "/a" is <<"","a">>, "" is <<"">>, "all" is          *)
(*     <<"all">>.  This is a bijection between strings and non-empty       *)
(*     sequences of slash-free strings, so string equality is sequence     *)
(*     equality.                                                           *)
(*   - Any other string (ssh_host, ssh_user, ...) is a TLA+ string, and    *)
(*     ssh_port is an integer.                                             *)
(*   - A dict is a function; a key is present iff it is in the DOMAIN.     *)
(*   - A list is a sequence.                                               *)
(***************************************************************************)
EXTENDS Integers, Sequences, FiniteSets, TLC

VARIABLES vms, names, inventory, pc, calls, err, emitted

vars == <<vms, names, inventory, pc, calls, err, emitted>>

\* ------------------------------------------------------------------ bounds

\* Longest VM list `vml show` returns in the model.
MaxVMs == 2

\* Most stage calls made on one builder by the stage-order harness.
MaxCalls == 4

\* ----------------------------------------------------------------- helpers

Range(s) == {s[i] : i \in 1..Len(s)}

\* The keys "all" and "_meta" of the inventory document.
AllKey == <<"all">>

MetaKey == <<"_meta">>

\* The mapping with no keys ({} in Python).
EmptyDict == <<>>

\* The falsy value of each field's type: 0 for the numeric ssh_port, the empty
\* string for the others (network_address is a string split on "/").
Falsy(field) ==
    CASE field = "ssh_port" -> 0
      [] field = "network_address" -> <<"">>
      [] OTHER -> ""

\* Python truthiness of vm.get(field): a missing field gives None, and None,
\* "" and 0 are falsy.
Truthy(vm, field) == field \in DOMAIN vm /\ vm[field] # Falsy(field)

\* ------------------------------------------------- pathlib.Path(name).parents

\* The root pathlib gives a POSIX path: "/" for a leading slash, "//" for
\* exactly two leading slashes, "" for a relative path.  As segments: the root
\* prefix that as_posix() writes before the parts.
PathRoot(name) ==
    IF Len(name) >= 2 /\ name[1] = ""
    THEN IF Len(name) >= 3 /\ name[2] = "" /\ ~(Len(name) >= 4 /\ name[3] = "")
         THEN <<"", "">>
         ELSE <<"">>
    ELSE <<>>

\* The parts after the root: empty segments and "." are dropped.
IsPart(seg) == seg # "" /\ seg # "."

PathParts(name) == SelectSeq(name, IsPart)

\* as_posix() of the path with the given root prefix and parts: "." for the
\* empty relative path, the root alone for an empty absolute one.
AsPosix(root, parts) ==
    IF parts = <<>>
    THEN IF root = <<>> THEN <<".">> ELSE root \o <<"">>
    ELSE root \o parts

\* [p.as_posix() for p in Path(name).parents]: the ancestors from the nearest
\* to the farthest, ending with "." (relative) or the root (absolute); a path
\* with no parts has no parents.
Parents(name) ==
    LET root == PathRoot(name)
        parts == PathParts(name)
        n == Len(parts)
    IN [i \in 1..n |-> AsPosix(root, SubSeq(parts, 1, n - i))]

\* lst[:-1]
DropLast(lst) == IF lst = <<>> THEN <<>> ELSE SubSeq(lst, 1, Len(lst) - 1)

NameGroupsKeepRoot(name) == Parents(name)

\* The groups line 55 derives from one name.
NameGroups(name) == DropLast(Parents(name))

\* ------------------------------------------------- ipaddress.ip_interface

\* The address literals of the model with the text str() gives the parsed
\* address: IPv4 literals, then IPv6 literals (str() compresses them).
V4Text == [x \in {"10.0.0.5"} |-> x]

V6Text == [x \in {"::1", "0::1"} |-> "::1"]

\* The prefix literals each family accepts after the "/".
V4Prefix == {"24", "32", "255.255.255.0"}

V6Prefix == {"24", "32", "64"}

\* ip_interface(cidr) raises ValueError: more than one "/", an address that
\* is neither IPv4 nor IPv6, or a prefix the address family rejects.
IpRaises(cidr) ==
    \/ Len(cidr) > 2
    \/ cidr[1] \notin (DOMAIN V4Text \cup DOMAIN V6Text)
    \/ /\ Len(cidr) = 2
       /\ cidr[1] \in DOMAIN V4Text
       /\ cidr[2] \notin V4Prefix
    \/ /\ Len(cidr) = 2
       /\ cidr[1] \in DOMAIN V6Text
       /\ cidr[2] \notin V6Prefix

\* str(ipaddress.ip_interface(cidr).ip), for a cidr that does not raise.
IpText(cidr) ==
    IF cidr[1] \in DOMAIN V4Text THEN V4Text[cidr[1]] ELSE V6Text[cidr[1]]

\* ------------------------------------------------------------ hostvars()

\* One `if value := vm.get(field): host_vars[var] = value` of lines 33-42.
PassThrough(vm, field, var) ==
    IF Truthy(vm, field) THEN var :> vm[field] ELSE EmptyDict

\* Lines 44-47 raise ValueError for this record.
RecordRaises(vm) ==
    Truthy(vm, "network_address") /\ IpRaises(vm["network_address"])

\* Lines 44-47, for a record that does not raise.
NetworkVars(vm) ==
    IF Truthy(vm, "network_address")
    THEN ("network_cidr" :> vm["network_address"])
         @@ ("network_address" :> IpText(vm["network_address"]))
    ELSE EmptyDict

\* host_vars as lines 32-47 build it for one record that does not raise.
HostVars(vm) ==
    PassThrough(vm, "ssh_host", "ansible_host")
    @@ PassThrough(vm, "ssh_port", "ansible_port")
    @@ PassThrough(vm, "ssh_user", "ansible_user")
    @@ PassThrough(vm, "ssh_key", "ansible_ssh_private_key_file")
    @@ PassThrough(vm, "ssh_options", "ansible_ssh_common_args")
    @@ NetworkVars(vm)

StoreAlways(host_vars) == TRUE

\* `if host_vars:` of line 49.
StoreGuard(host_vars) == DOMAIN host_vars # {}

SetHostVarsKeepFirst(inv, name, host_vars) ==
    [inv EXCEPT ![MetaKey] =
        [@ EXCEPT !["hostvars"] = @ @@ (name :> host_vars)]]

\* inventory["_meta"]["hostvars"][name] = host_vars (line 50), for an
\* inventory whose "_meta" entry has the key "hostvars".
SetHostVars(inv, name, host_vars) ==
    [inv EXCEPT ![MetaKey] =
        [@ EXCEPT !["hostvars"] = (name :> host_vars) @@ @]]

RECURSIVE HostvarsLoopSkipBad(_, _, _)
HostvarsLoopSkipBad(inv, records, i) ==
    IF i > Len(records)
    THEN [inventory |-> inv, err |-> "none"]
    ELSE IF RecordRaises(records[i])
    THEN HostvarsLoopSkipBad(inv, records, i + 1)
    ELSE IF DOMAIN HostVars(records[i]) = {}
    THEN HostvarsLoopSkipBad(inv, records, i + 1)
    ELSE IF "hostvars" \notin DOMAIN inv[MetaKey]
    THEN [inventory |-> inv, err |-> "KeyError"]
    ELSE HostvarsLoopSkipBad(
             SetHostVars(inv, records[i]["name"], HostVars(records[i])),
             records, i + 1)

\* The loop of hostvars() from record i on: the inventory it leaves and the
\* exception that ended it ("none": it completed).  ip_interface raises
\* ValueError; line 50 raises KeyError when "_meta" has no "hostvars".
RECURSIVE HostvarsLoop(_, _, _)
HostvarsLoop(inv, records, i) ==
    IF i > Len(records)
    THEN [inventory |-> inv, err |-> "none"]
    ELSE IF RecordRaises(records[i])
    THEN [inventory |-> inv, err |-> "ValueError"]
    ELSE IF ~StoreGuard(HostVars(records[i]))
    THEN HostvarsLoop(inv, records, i + 1)
    ELSE IF "hostvars" \notin DOMAIN inv[MetaKey]
    THEN [inventory |-> inv, err |-> "KeyError"]
    ELSE HostvarsLoop(
             SetHostVars(inv, records[i]["name"], HostVars(records[i])),
             records, i + 1)

\* -------------------------------------------------------------- groups()

\* defaultdict(set) with its insertion order: keys in the order they were
\* first used, and the member set of each key.
NoGroups == [keys |-> <<>>, members |-> EmptyDict]

\* groups[group].add(name)
AddMember(g, group, name) ==
    IF group \in DOMAIN g.members
    THEN [g EXCEPT !.members = [@ EXCEPT ![group] = @ \cup {name}]]
    ELSE [keys |-> Append(g.keys, group),
          members |-> (group :> {name}) @@ g.members]

\* The inner loop of lines 55-56 over the groups of one name, from the j-th.
RECURSIVE AddName(_, _, _, _)
AddName(g, name, lst, j) ==
    IF j > Len(lst) THEN g
    ELSE AddName(AddMember(g, lst[j], name), name, lst, j + 1)

\* The loop of lines 54-56 over self.names, from the i-th.
RECURSIVE GroupMap(_, _, _)
GroupMap(g, nms, i) ==
    IF i > Len(nms) THEN g
    ELSE GroupMap(AddName(g, nms[i], NameGroups(nms[i]), 1), nms, i + 1)

\* list(hosts) of a set: every element once, in an order Python does not
\* fix (string hashing is randomised).
ListsOf(S) ==
    {s \in [1..Cardinality(S) -> S] : Range(s) = S}

WriteChildrenAlways(g) == TRUE

\* `if groups:` of line 58.
WriteChildren(g) == g.keys # <<>>

\* self.inventory["all"]["children"] = list(groups.keys())  (line 59)
SetChildren(inv, g) ==
    [inv EXCEPT ![AllKey] = ("children" :> g.keys) @@ @]

\* The loop of lines 60-61 from the j-th group on, over every inventory in
\* invs: self.inventory[group] = {"hosts": list(hosts)} replaces whatever the
\* key held.
RECURSIVE SetGroups(_, _, _)
SetGroups(invs, g, j) ==
    IF j > Len(g.keys) THEN invs
    ELSE SetGroups(
             {(g.keys[j] :> [hosts |-> lst]) @@ inv :
                 inv \in invs, lst \in ListsOf(g.members[g.keys[j]])},
             g, j + 1)

\* The inventories groups() can leave, one per order of the host lists.
GroupsOutcomes(inv, nms) ==
    LET g == GroupMap(NoGroups, nms, 1)
    IN IF WriteChildren(g)
       THEN SetGroups({SetChildren(inv, g)}, g, 1)
       ELSE {inv}

\* ------------------------------------------------------------- the input

\* VM names `vml show` can report: plain, nested, sharing ancestors, under
\* the inventory's own keys, and with empty or "." segments or a leading or
\* trailing slash.
NameSamples ==
    { <<"a">>, <<"b">>, <<"all">>, <<"a", "b">>, <<"a", "b", "c">>,
      <<"all", "x">>, <<"_meta", "x">>, <<"..", "a">>,
      <<"a", "", "b">>, <<"a", ".", "b">>, <<"a", "b", "">>,
      <<"", "a">>, <<"", "a", "b">>, <<"", "", "a", "b">> }

\* Optional fields a record can carry, with falsy and malformed values.
FieldSamples ==
    { [ssh_host |-> "h"],
      [ssh_port |-> 0],
      [ssh_host |-> "", ssh_user |-> ""],
      [ssh_port |-> 22, ssh_user |-> "u", ssh_key |-> "k", ssh_options |-> "-v"],
      [network_address |-> <<"10.0.0.5", "24">>],
      [network_address |-> <<"0::1", "64">>],
      [ssh_host |-> "h", network_address |-> <<"10.0.0.5">>],
      [network_address |-> <<"">>],
      [network_address |-> <<"10.0.0.5", "64">>],
      [ssh_user |-> "u", network_address |-> <<"bad", "24">>],
      [network_address |-> <<"10.0.0.5", "24", "1">>] }

\* The records of the model: every sample name bare and with one field, and
\* every field sample under a plain and a nested name.
VMRecords ==
    {[name |-> n] : n \in NameSamples}
    \cup {[name |-> n, ssh_host |-> "h"] : n \in NameSamples}
    \cup {("name" :> n) @@ f : n \in {<<"a">>, <<"a", "b">>}, f \in FieldSamples}

VMLists == UNION {[1..n -> VMRecords] : n \in 0..MaxVMs}

\* ---------------------------------------------------------- the program

\* self.inventory as lines 22-28 build it from self.names.
InitialInventory(nms) ==
    (AllKey :> [hosts |-> nms,
                vars |-> [ansible_python_interpreter |-> "/usr/bin/python3"]])
    @@ (MetaKey :> [hostvars |-> EmptyDict])

\* __init__ (lines 13-28): the VM list is whatever `vml show` printed.
Init ==
    /\ vms \in VMLists
    /\ names = [i \in DOMAIN vms |-> vms[i]["name"]]
    /\ inventory = InitialInventory(names)
    /\ pc = "hostvars"
    /\ calls = <<>>
    /\ err = "none"
    /\ emitted = <<>>

\* ib.hostvars(), the whole method.
Hostvars ==
    LET r == HostvarsLoop(inventory, vms, 1)
    IN /\ inventory' = r.inventory
       /\ err' = r.err
       /\ calls' = Append(calls, "hostvars")
       /\ UNCHANGED <<vms, names, emitted>>

\* ib.groups(), the whole method.
Groups ==
    /\ inventory' \in GroupsOutcomes(inventory, names)
    /\ calls' = Append(calls, "groups")
    /\ UNCHANGED <<vms, names, err, emitted>>

\* main(), line 66: an exception ends the run before anything is printed.
MainHostvars ==
    /\ pc = "hostvars"
    /\ Hostvars
    /\ pc' = IF err' = "none" THEN "groups" ELSE "failed"

\* main(), line 67.
MainGroups ==
    /\ pc = "groups"
    /\ Groups
    /\ pc' = "print"

\* main(), line 69: print(json.dumps(ib.inventory)).
MainPrint ==
    /\ pc = "print"
    /\ emitted' = Append(emitted, inventory)
    /\ pc' = "done"
    /\ UNCHANGED <<vms, names, inventory, calls, err>>

Next == MainHostvars \/ MainGroups \/ MainPrint

Spec == Init /\ [][Next]_vars

\* The two stages called on one builder in any order, as a caller other than
\* main() may: a call is possible while no earlier call raised.
CallHostvars ==
    /\ err = "none"
    /\ Len(calls) < MaxCalls
    /\ Hostvars
    /\ UNCHANGED pc

CallGroups ==
    /\ err = "none"
    /\ Len(calls) < MaxCalls
    /\ Groups
    /\ UNCHANGED pc

NextStages == CallHostvars \/ CallGroups

SpecStages == Init /\ [][NextStages]_vars

\* ------------------------------------------------------------ properties

\* How often x occurs in the list lst.
Count(x, lst) == Cardinality({i \in DOMAIN lst : lst[i] = x})

\* The names of the input are pairwise distinct (the input contract of the
\* VM list).
UniqueNames == \A i, j \in DOMAIN names : names[i] = names[j] => i = j

\* No record of the input makes ip_interface raise.
NoMalformed == \A i \in DOMAIN vms : ~RecordRaises(vms[i])

\* The entry doc[key] is a group entry: {"hosts": [...]} and nothing else.
IsGroupEntry(doc, key) == key \in DOMAIN doc /\ DOMAIN doc[key] = {"hosts"}

\* A document with every "hosts" and "children" list read as a set.
NormEntry(entry) ==
    [k \in DOMAIN entry |->
        IF k \in {"hosts", "children"} THEN Range(entry[k]) ELSE entry[k]]

NormDoc(doc) == [key \in DOMAIN doc |-> NormEntry(doc[key])]

\* The documents main() leaves for the input: hostvars(), then groups(), on
\* a fresh builder (for an input with no malformed address).
MainDocs ==
    GroupsOutcomes(HostvarsLoop(InitialInventory(names), vms, 1).inventory,
                   names)

\* The proper prefixes of a name: segments 1..i for i in 1..k-1.
ProperPrefixes(name) == {SubSeq(name, 1, i) : i \in 1..(Len(name) - 1)}

\* Every segment of the name is non-empty and none is ".".
CleanName(name) == \A i \in DOMAIN name : name[i] # "" /\ name[i] # "."

\* The groups the builder derives from the input.
DerivedGroups == UNION {Range(NameGroups(names[i])) : i \in DOMAIN names}

\* C1: in every emitted document, each VM name of an input with pairwise
\* distinct names appears in all.hosts exactly once.
C1_AllHostsExactlyOnce ==
    \A k \in DOMAIN emitted :
        UniqueNames =>
            \A n \in Range(names) : Count(n, emitted[k][AllKey]["hosts"]) = 1

\* The name is listed in the hosts of the group entries keyed by its proper
\* prefixes and of no other group entry.
MemberOfExactlyPrefixes(name) ==
    \A g \in DOMAIN inventory \cup ProperPrefixes(name) :
        (IsGroupEntry(inventory, g) /\ name \in Range(inventory[g]["hosts"]))
            <=> g \in ProperPrefixes(name)

\* groups() has run in main().
GroupsDone == pc \in {"print", "done"}

\* C2 as stated: after groups(), every VM name is a member of exactly the
\* group entries keyed by its k-1 proper prefixes.
C2_PrefixGroupsAnyName ==
    GroupsDone => \A n \in Range(names) : MemberOfExactlyPrefixes(n)

\* C2 amended: after groups(), every VM name whose segments are all non-empty
\* and not "." is a member of exactly the group entries keyed by its k-1
\* proper prefixes, and no name produces a root group ("." or "/").
C2_PrefixGroupsCleanName ==
    GroupsDone =>
        /\ \A n \in Range(names) : CleanName(n) => MemberOfExactlyPrefixes(n)
        /\ ~IsGroupEntry(inventory, <<".">>)
        /\ <<"", "">> \notin DOMAIN inventory

\* C2 witness: "a/b/c" has been grouped under "a" and "a/b".
C2_Witness ==
    /\ GroupsDone
    /\ <<"a", "b", "c">> \in Range(names)
    /\ IsGroupEntry(inventory, <<"a">>)
    /\ IsGroupEntry(inventory, <<"a", "b">>)
    /\ <<"a", "b", "c">> \in Range(inventory[<<"a">>]["hosts"])
    /\ <<"a", "b", "c">> \in Range(inventory[<<"a", "b">>]["hosts"])

\* C3: for an input with no malformed address, groups() then hostvars()
\* completes without error and leaves a document that hostvars() then
\* groups() leaves too (lists read as sets).
C3_StagesCommute ==
    (calls = <<"groups", "hostvars">> /\ NoMalformed) =>
        /\ err = "none"
        /\ NormDoc(inventory) \in {NormDoc(d) : d \in MainDocs}

\* The record carries a network_address that is present, non-empty and not
\* an interface address.
Malformed(vm) ==
    /\ "network_address" \in DOMAIN vm
    /\ vm["network_address"] # <<"">>
    /\ IpRaises(vm["network_address"])

\* C4: when any record of the input carries a malformed network_address,
\* nothing is ever emitted, and once hostvars() has been called the run has
\* failed with ValueError, wherever the bad record stands.
C4_MalformedAddressFailsRun ==
    (\E i \in DOMAIN vms : Malformed(vms[i])) =>
        /\ emitted = <<>>
        /\ pc \in {"hostvars", "failed"}
        /\ pc = "failed" => err = "ValueError"

\* C4 witness: the run failed on a bad second record after the first
\* record's host variables had been stored.
C4_Witness ==
    /\ pc = "failed"
    /\ Len(vms) = 2
    /\ ~Malformed(vms[1])
    /\ Malformed(vms[2])
    /\ DOMAIN inventory[MetaKey]["hostvars"] # {}
    /\ emitted = <<>>

\* C5: in every emitted document each derived group is in all.children
\* exactly once and has a group entry holding exactly its members, and
\* every name in all.children is a derived group.
C5_ChildrenAndGroupEntries ==
    \A k \in DOMAIN emitted :
        LET doc == emitted[k]
            children == IF "children" \in DOMAIN doc[AllKey]
                        THEN doc[AllKey]["children"]
                        ELSE <<>>
        IN /\ \A g \in DerivedGroups :
                 /\ Count(g, children) = 1
                 /\ IsGroupEntry(doc, g)
                 /\ Range(doc[g]["hosts"]) =
                        {n \in Range(names) : g \in Range(NameGroups(n))}
           /\ Range(children) \subseteq DerivedGroups

\* A source field is present and non-empty: any number counts, a string
\* counts unless it is empty.
Present(vm, field) ==
    /\ field \in DOMAIN vm
    /\ field = "ssh_port" \/ vm[field] # Falsy(field)

\* The variable a present source field gives, with the value passed through.
ExpectedVar(vm, field, var) ==
    IF Present(vm, field) THEN var :> vm[field] ELSE EmptyDict

\* The HostVars the field-to-variable rules give one well-formed record.
ExpectedHostVars(vm) ==
    ExpectedVar(vm, "ssh_host", "ansible_host")
    @@ ExpectedVar(vm, "ssh_port", "ansible_port")
    @@ ExpectedVar(vm, "ssh_user", "ansible_user")
    @@ ExpectedVar(vm, "ssh_key", "ansible_ssh_private_key_file")
    @@ ExpectedVar(vm, "ssh_options", "ansible_ssh_common_args")
    @@ ExpectedVar(vm, "network_address", "network_cidr")
    @@ (IF Present(vm, "network_address")
        THEN "network_address" :> IpText(vm["network_address"])
        ELSE EmptyDict)

\* hostvars() has completed in main() and groups() has not run yet.
HostvarsDone == pc = "groups"

\* The HostVars stored under the name, {} when there is no entry.
StoredHostVars(name) ==
    IF name \in DOMAIN inventory[MetaKey]["hostvars"]
    THEN inventory[MetaKey]["hostvars"][name]
    ELSE EmptyDict

\* C6: after hostvars() on an input with distinct names, the HostVars of
\* each record holds a variable iff its source field is present and
\* non-empty (a numeric ssh_port such as 0 included), with the value passed
\* through, and the two network variables iff network_address is.
C6_VariableIffFieldPresent ==
    (HostvarsDone /\ UniqueNames) =>
        \A i \in DOMAIN vms :
            StoredHostVars(vms[i]["name"]) = ExpectedHostVars(vms[i])

\* C7: after hostvars(), a VM name has an entry in _meta.hostvars iff a
\* record of that name yields a non-empty HostVars; a name whose records set
\* no optional field has none, and no entry is an empty mapping.
C7_EntryIffNonEmptyHostVars ==
    HostvarsDone =>
        LET hostvars == inventory[MetaKey]["hostvars"]
        IN /\ DOMAIN hostvars \subseteq Range(names)
           /\ \A n \in Range(names) :
                 n \in DOMAIN hostvars <=>
                     \E i \in DOMAIN vms :
                         vms[i]["name"] = n /\ DOMAIN HostVars(vms[i]) # {}
           /\ \A n \in Range(names) :
                 (\A i \in DOMAIN vms :
                      vms[i]["name"] = n => DOMAIN vms[i] = {"name"})
                     => n \notin DOMAIN hostvars
           /\ \A n \in DOMAIN hostvars : DOMAIN hostvars[n] # {}

\* C7 witness: of two records, the one with a field has an entry and the one
\* with no optional field has none.
C7_Witness ==
    /\ HostvarsDone
    /\ Len(vms) = 2
    /\ DOMAIN vms[1] = {"name"}
    /\ vms[1]["name"] # vms[2]["name"]
    /\ vms[1]["name"] \notin DOMAIN inventory[MetaKey]["hostvars"]
    /\ vms[2]["name"] \in DOMAIN inventory[MetaKey]["hostvars"]

\* C8: an emitted document has only the keys "all" and "_meta" and no
\* "children" when no name contains "/" (or no group is derived at all), is
\* the minimal document for the empty VM list, never has an empty
\* all.children, and never has a group entry with no hosts.
C8_NoEmptyPlaceholders ==
    \A k \in DOMAIN emitted :
        LET doc == emitted[k]
        IN /\ ((\A n \in Range(names) : Len(n) = 1) \/ DerivedGroups = {}) =>
                 /\ DOMAIN doc = {AllKey, MetaKey}
                 /\ "children" \notin DOMAIN doc[AllKey]
           /\ vms = <<>> =>
                 doc = (AllKey :> [hosts |-> <<>>,
                                   vars |-> [ansible_python_interpreter |->
                                                 "/usr/bin/python3"]])
                       @@ (MetaKey :> [hostvars |-> EmptyDict])
           /\ "children" \in DOMAIN doc[AllKey] =>
                 doc[AllKey]["children"] # <<>>
           /\ \A g \in DOMAIN doc :
                 IsGroupEntry(doc, g) => doc[g]["hosts"] # <<>>

\* C8 witness: a document was emitted for two VMs whose names have no "/".
C8_Witness ==
    /\ Len(emitted) = 1
    /\ Len(vms) = 2
    /\ \A n \in Range(names) : Len(n) = 1
    /\ DOMAIN emitted[1] = {AllKey, MetaKey}

\* C9: for an input with no malformed address, once hostvars() and groups()
\* have run, calling either again never fails and leaves a document main()
\* leaves for that input (lists read as sets).
C9_RepeatableStages ==
    (Len(calls) >= 2 /\ SubSeq(calls, 1, 2) = <<"hostvars", "groups">>
        /\ NoMalformed) =>
        /\ err = "none"
        /\ NormDoc(inventory) \in {NormDoc(d) : d \in MainDocs}

\* The records of the input that carry the name.
RecordsNamed(name) == {i \in DOMAIN vms : vms[i]["name"] = name}

\* The name is carried by two records or more.
Duplicated(name) == Cardinality(RecordsNamed(name)) >= 2

Max(S) == CHOOSE x \in S : \A y \in S : y <= x

\* C10 as stated: with no malformed address the run does not fail, and after
\* hostvars() the entry of a duplicated name holds the HostVars of the last
\* record of that name, and is absent when that HostVars is empty.
C10_LastRecordWins ==
    NoMalformed =>
        /\ pc # "failed"
        /\ HostvarsDone =>
               \A n \in Range(names) :
                   Duplicated(n) =>
                       StoredHostVars(n) = HostVars(vms[Max(RecordsNamed(n))])

\* The records of the name whose HostVars is non-empty.
RecordsStoring(name) ==
    {i \in RecordsNamed(name) : DOMAIN HostVars(vms[i]) # {}}

\* C10 amended: with no malformed address the run does not fail, and after
\* hostvars() the entry of a duplicated name holds the HostVars of the last
\* record of that name whose HostVars is non-empty, and is absent only when
\* every record of that name has an empty HostVars.
C10_LastNonEmptyRecordWins ==
    NoMalformed =>
        /\ pc # "failed"
        /\ HostvarsDone =>
               \A n \in Range(names) :
                   Duplicated(n) =>
                       IF RecordsStoring(n) = {}
                       THEN n \notin DOMAIN inventory[MetaKey]["hostvars"]
                       ELSE /\ n \in DOMAIN inventory[MetaKey]["hostvars"]
                            /\ inventory[MetaKey]["hostvars"][n] =
                                   HostVars(vms[Max(RecordsStoring(n))])

\* C10 witness: two records share a name, both with host variables, and the
\* entry holds the second record's.
C10_Witness ==
    /\ HostvarsDone
    /\ Len(vms) = 2
    /\ vms[1]["name"] = vms[2]["name"]
    /\ DOMAIN HostVars(vms[1]) # {}
    /\ DOMAIN HostVars(vms[2]) # {}
    /\ HostVars(vms[1]) # HostVars(vms[2])
    /\ inventory[MetaKey]["hostvars"][vms[2]["name"]] = HostVars(vms[2])

====
